---- MODULE Spec2Model ----
(***************************************************************************)
(* Strict encoding: the length-prefix writer and the serialize /          *)
(* deserialize layer of src/encoding/traits.rs, and the schema-driven      *)
(* reification engine TypeSystem::load of src/value/reify.rs.              *)
(*                                                                         *)
(* usize, u64 and the const generics MAX_LEN are 64 bits wide and do not   *)
(* fit a model integer: they are kept as 8 bytes, most significant first   *)
(* (a "wide").  Number values are kept as the 16 bytes of the u128 / i128  *)
(* that StrictVal::num widens them to.                                     *)
(***************************************************************************)
EXTENDS Integers, Sequences, FiniteSets, TLC

VARIABLES
    pc,        \* "call" before the operation ran, "done" after it returned
    op,        \* the operation this run invokes
    MAX_LEN,   \* const generic of write_raw_len (a wide)
    len,       \* the length handed to write_raw_len (a wide)
    writer,    \* bytes the StrictWriter has emitted
    value,     \* value being serialized: the chunks its strict_encode writes
    MAX,       \* const generic of the Serialize / Deserialize methods
    limited,   \* whether the StrictWriter refuses writes past its limit
    createOk,  \* whether fs::File::create / fs::File::open succeeds
    file,      \* bytes of the file at `path`
    dty,       \* the StrictDecode type that is deserialized
    sys,       \* the TypeSystem: SemId -> Ty
    spec,      \* the TypeSpec handed to load
    data,      \* the byte source / the buffer that is decoded
    reader,    \* position of the byte source and the reads it served
    result,    \* what the operation returned
    live,      \* the builder values (writers, definers) the caller holds
    opened,    \* the contexts that opened the ones now open, innermost first
    nextId     \* the number of builder contexts opened so far

vars == <<pc, op, MAX_LEN, len, writer, value, MAX, limited, createOk, file,
          dty, sys, spec, data, reader, result, live, opened, nextId>>

-----------------------------------------------------------------------------
(* Bounds of the model *)

\* longest byte source drawn over the whole alphabet Bytes
MaxStreamLen == 3
\* most chunks (fields) of a serialized value
MaxFields == 2
\* largest const generic MAX of the Serialize / Deserialize methods
MaxMAX == 3

\* byte values the byte sources are drawn from: small lengths and tags,
\* an undeclared tag, a UTF-8 lead byte and a continuation byte (both > 127)
Bytes == {0, 1, 2, 169, 195}

RECURSIVE SeqsUpTo(_, _)
SeqsUpTo(S, n) ==
    IF n = 0 THEN {<<>>}
    ELSE LET shorter == SeqsUpTo(S, n - 1)
         IN  shorter \cup {Append(s, x) : s \in {t \in shorter : Len(t) = n - 1}, x \in S}

-----------------------------------------------------------------------------
(* 64-bit integers as 8 bytes, most significant first *)

Wide(n) == <<0, 0, 0, 0, (n \div 16777216) % 256, (n \div 65536) % 256,
             (n \div 256) % 256, n % 256>>

U8_MAX  == <<0, 0, 0, 0, 0, 0, 0, 255>>
U16_MAX == <<0, 0, 0, 0, 0, 0, 255, 255>>
U24_MAX == <<0, 0, 0, 0, 0, 255, 255, 255>>
U32_MAX == <<0, 0, 0, 0, 255, 255, 255, 255>>
U64_MAX == <<255, 255, 255, 255, 255, 255, 255, 255>>
ISIZE_MAX == <<127, 255, 255, 255, 255, 255, 255, 255>>

WLt(a, b) == \E i \in 1..8 : a[i] < b[i] /\ \A j \in 1..(i - 1) : a[j] = b[j]
WLe(a, b) == a = b \/ WLt(a, b)

\* the wide before a (a > 0) and the wide after a (a < u64::MAX)
RECURSIVE WPredAt(_, _)
WPredAt(a, i) ==
    IF a[i] > 0 THEN [a EXCEPT ![i] = a[i] - 1]
    ELSE WPredAt([a EXCEPT ![i] = 255], i - 1)
WPred(a) == WPredAt(a, 8)
RECURSIVE WSuccAt(_, _)
WSuccAt(a, i) ==
    IF a[i] < 255 THEN [a EXCEPT ![i] = a[i] + 1]
    ELSE WSuccAt([a EXCEPT ![i] = 0], i - 1)
WSucc(a) == WSuccAt(a, 8)

\* a narrowing `as` cast keeps the low w bytes; in wire (little-endian) order
LowBytesLe(a, w) == [i \in 1..w |-> a[9 - i]]
\* an unsigned little-endian wire integer of at most 8 bytes, widened to 64 bits
FromLe(bytes) == [i \in 1..8 |-> IF 9 - i <= Len(bytes) THEN bytes[9 - i] ELSE 0]
\* the value of a wide that fits 3 bytes
Low24(a) == a[6] * 65536 + a[7] * 256 + a[8]
Fits24(a) == \A i \in 1..5 : a[i] = 0

Unused == <<>>

-----------------------------------------------------------------------------
(* Outcomes: Ok(value), Err(error), or a panic of the thread *)

Ok(v)    == [res |-> "Ok", val |-> v]
Err(e)   == [res |-> "Err", err |-> e]
Panic(m) == [res |-> "Panic", msg |-> m]

-----------------------------------------------------------------------------
(* TypedWrite::write_raw_len, traits.rs *)

\* the tier the match on MAX_LEN selects: the width of the prefix in bytes,
\* 0 for the unreachable!() arm
RawLenWidthOffByOne(max_len) ==
    IF WLe(max_len, U8_MAX) THEN 1
    ELSE IF WLe(max_len, U16_MAX) THEN 2
    ELSE IF WLt(max_len, U24_MAX) THEN 3
    ELSE IF WLt(max_len, U32_MAX) THEN 4
    ELSE 0

RawLenWidth(max_len) ==
    IF WLe(max_len, U8_MAX) THEN 1
    ELSE IF WLt(max_len, U16_MAX) THEN 2
    ELSE IF WLt(max_len, U24_MAX) THEN 3
    ELSE IF WLt(max_len, U32_MAX) THEN 4
    ELSE 0

\* u24::with(len as u32): the cast keeps 32 bits, the constructor asserts
\* that the value fits 24
U24With(l) == IF l[5] = 0 THEN Ok(LowBytesLe(l, 3))
              ELSE Panic("provided value exceeds u24 range")

\* a prefix cast to u8 whatever the tier
write_raw_len_AsU8(max_len, l) ==
    IF RawLenWidth(max_len) = 0
    THEN Panic("confined collections larger than u32::MAX must not exist")
    ELSE Ok(LowBytesLe(l, 1))

\* the bytes write_raw_len hands to the writer
write_raw_len(max_len, l) ==
    LET w == RawLenWidth(max_len)
    IN  IF w = 0
        THEN Panic("confined collections larger than u32::MAX must not exist")
        ELSE IF w = 3 THEN U24With(l)
        ELSE Ok(LowBytesLe(l, w))

\* declared maxima at and around every tier boundary
MaxLens ==
    LET at == {U8_MAX, U16_MAX, U24_MAX, U32_MAX}
    IN  {Wide(0), Wide(1), U64_MAX, ISIZE_MAX} \cup at
        \cup {WPred(a) : a \in at} \cup {WSucc(a) : a \in at}

\* lengths handed to write_raw_len
Lens == {Wide(0), Wide(1), Wide(2), U8_MAX, WSucc(U8_MAX), U16_MAX, WSucc(U16_MAX),
         U24_MAX, WSucc(U24_MAX), U32_MAX}

InitWrite ==
    /\ pc = "call"
    /\ live = Unused /\ opened = Unused /\ nextId = 0
    /\ op = "write_raw_len"
    /\ MAX_LEN \in MaxLens
    /\ len \in Lens
    /\ writer = <<>>
    /\ result = Unused
    /\ value = Unused /\ MAX = 0 /\ limited = FALSE /\ createOk = FALSE
    /\ file = Unused /\ dty = Unused /\ sys = Unused /\ spec = Unused
    /\ data = Unused /\ reader = Unused

WriteRawLen ==
    /\ pc = "call"
    /\ op = "write_raw_len"
    /\ LET r == write_raw_len(MAX_LEN, len)
       IN  /\ writer' = IF r.res = "Ok" THEN writer \o r.val ELSE writer
           /\ result' = IF r.res = "Ok" THEN Ok(Unused) ELSE r
    /\ pc' = "done"
    /\ UNCHANGED <<live, opened, nextId>>
    /\ UNCHANGED <<op, MAX_LEN, len, value, MAX, limited, createOk, file, dty,
                   sys, spec, data, reader>>

NextWrite == WriteRawLen

SpecWrite == InitWrite /\ [][NextWrite]_vars

-----------------------------------------------------------------------------
(* Errors.  Every error is a record of the same shape: its kind, the type
   specifier (or its text form) and the tag it carries, when it carries one *)

E(kind) == [kind |-> kind, spec |-> Unused, tag |-> 0]
TypeAbsent(sp) == [kind |-> "TypeAbsent", spec |-> sp, tag |-> 0]
NotImplemented == E("NotImplemented")
EnumTagNotKnown(text, tag) == [kind |-> "EnumTagNotKnown", spec |-> text, tag |-> tag]
DataNotEntirelyConsumed == E("DataNotEntirelyConsumed")
\* the errors the decoding layer raises, wrapped unchanged by load
DecodeKinds == {"Io", "Utf8", "Ascii", "EnumTagNotKnown"}

-----------------------------------------------------------------------------
(* StrictWriter: a byte sink with a count and a limit *)

NewWriter(limit, sink) == [count |-> 0, limit |-> limit, sink |-> sink]

\* _write_raw: write_all of the bytes; a writer that enforces its limit
\* refuses a write that would pass it and writes none of it
WriterWrite(w, bytes) ==
    IF limited /\ w.count + Len(bytes) > w.limit
    THEN [res |-> "Err", err |-> E("Io"), w |-> w]
    ELSE [res |-> "Ok",
          w |-> [w EXCEPT !.count = w.count + Len(bytes), !.sink = w.sink \o bytes]]

\* StrictEncode::strict_encode of a value: one raw write per chunk, in
\* order, each `?` returning at the first failed write
RECURSIVE EncodeFrom(_, _, _)
EncodeFrom(v, i, w) ==
    IF i > Len(v) THEN [res |-> "Ok", w |-> w]
    ELSE LET r == WriterWrite(w, v[i])
         IN  IF r.res = "Ok" THEN EncodeFrom(v, i + 1, r.w) ELSE r
strict_encode(v, w) == EncodeFrom(v, 1, w)

\* the full encoding of a value
RECURSIVE Flatten(_)
Flatten(v) == IF v = <<>> THEN <<>> ELSE Head(v) \o Flatten(Tail(v))

-----------------------------------------------------------------------------
(* Serialize, traits.rs *)

\* Confined::<Vec<u8>, 0, MAX>::try_from
ConfinedTryFrom(bytes, max) ==
    IF Len(bytes) > max THEN Err(E("Confinement")) ELSE Ok(bytes)

to_strict_serialized(v, max) ==
    LET r == strict_encode(v, NewWriter(max, <<>>))
    IN  IF r.res = "Err" THEN Err(r.err)
        ELSE ConfinedTryFrom(r.w.sink, max)

NoFile == [exists |-> FALSE, bytes |-> <<>>]
FileOf(bytes) == [exists |-> TRUE, bytes |-> bytes]

\* the result and the file it leaves: File::create truncates, and every
\* write that succeeded is in the file when the method returns
strict_serialize_to_file(v, max, f) ==
    IF ~createOk THEN [out |-> Err(E("Io")), file |-> f]
    ELSE LET r == strict_encode(v, NewWriter(max, <<>>))
         IN  [out  |-> IF r.res = "Err" THEN Err(r.err) ELSE Ok(Unused),
              file |-> FileOf(r.w.sink)]

-----------------------------------------------------------------------------
(* StrictReader over a byte source: reads are served in order from pos *)

NewReader == [pos |-> 0, log |-> <<>>]

ROk(v, rd)  == [res |-> "Ok", val |-> v, rd |-> rd]
RErr(e, rd) == [res |-> "Err", err |-> e, rd |-> rd]
RPanic(m, rd) == [res |-> "Panic", msg |-> m, rd |-> rd]

\* read_exact of n bytes: the next n bytes, or an unexpected-EOF error
ReadExact(d, rd, n) ==
    IF rd.pos + n <= Len(d)
    THEN ROk(SubSeq(d, rd.pos + 1, rd.pos + n),
             [pos |-> rd.pos + n, log |-> Append(rd.log, <<rd.pos, n>>)])
    ELSE RErr(E("Io"), rd)

\* read_exact of a wide number of bytes
ReadExactWide(d, rd, n) ==
    IF Fits24(n) THEN ReadExact(d, rd, Low24(n)) ELSE RErr(E("Io"), rd)

\* StrictDecode of the native types that are deserialized below:
\* u8, u16 and a byte string of at most 255 bytes behind a 1-byte length
DecodeTypes == {"u8", "u16", "TinyBytes"}
strict_decode(ty, d, rd) ==
    IF ty = "u8" THEN
        LET r == ReadExact(d, rd, 1)
        IN  IF r.res = "Ok" THEN ROk(FromLe(r.val), r.rd) ELSE r
    ELSE IF ty = "u16" THEN
        LET r == ReadExact(d, rd, 2)
        IN  IF r.res = "Ok" THEN ROk(FromLe(r.val), r.rd) ELSE r
    ELSE
        LET r == ReadExact(d, rd, 1)
        IN  IF r.res = "Ok" THEN ReadExact(d, r.rd, r.val[1]) ELSE r

-----------------------------------------------------------------------------
(* Deserialize, traits.rs *)

from_strict_serialized_Unchecked(ty, d) ==
    LET me == strict_decode(ty, d, NewReader)
    IN  IF me.res = "Err" THEN Err(me.err) ELSE Ok(me.val)

from_strict_serialized(ty, d) ==
    LET me == strict_decode(ty, d, NewReader)
    IN  IF me.res = "Err" THEN Err(me.err)
        \* cursor.fill_buf() is the unread rest of the buffer
        ELSE IF SubSeq(d, me.rd.pos + 1, Len(d)) # <<>>
             THEN Err(DataNotEntirelyConsumed)
        ELSE Ok(me.val)

strict_deserialize_from_file(ty, f) ==
    IF ~(createOk /\ f.exists) THEN Err(E("Io"))
    ELSE LET me == strict_decode(ty, f.bytes, NewReader)
         IN  IF me.res = "Err" THEN Err(me.err)
             \* stream_position() against seek(SeekFrom::End(0))
             ELSE IF me.rd.pos # Len(f.bytes) THEN Err(DataNotEntirelyConsumed)
             ELSE Ok(me.val)

-----------------------------------------------------------------------------
(* The serialize / deserialize specification *)

Chunks == {<<1>>, <<2>>, <<1, 2>>}
Values == SeqsUpTo(Chunks, MaxFields)
Buffers == SeqsUpTo({0, 1, 2}, MaxMAX + 1)
Files == {NoFile} \cup {FileOf(b) : b \in Buffers}

InitSerde ==
    /\ pc = "call"
    /\ live = Unused /\ opened = Unused /\ nextId = 0
    /\ op \in {"to_strict_serialized", "strict_serialize_to_file",
               "from_strict_serialized", "strict_deserialize_from_file"}
    /\ MAX \in 0..MaxMAX
    /\ IF op \in {"to_strict_serialized", "strict_serialize_to_file"}
       THEN /\ value \in Values
            /\ limited \in BOOLEAN
            /\ dty = Unused /\ data = Unused
       ELSE /\ dty \in DecodeTypes
            /\ value = Unused /\ limited = FALSE
            /\ IF op = "from_strict_serialized"
               THEN data \in {b \in Buffers : Len(b) <= MAX}
               ELSE data = Unused
    /\ IF op = "strict_serialize_to_file"
       THEN createOk \in BOOLEAN /\ file \in {NoFile, FileOf(<<0, 0>>)}
       ELSE IF op = "strict_deserialize_from_file"
       THEN createOk \in BOOLEAN /\ file \in Files
       ELSE createOk = FALSE /\ file = NoFile
    /\ result = Unused
    /\ MAX_LEN = Unused /\ len = Unused /\ writer = Unused
    /\ sys = Unused /\ spec = Unused /\ reader = Unused

ToStrictSerialized ==
    /\ pc = "call" /\ op = "to_strict_serialized"
    /\ result' = to_strict_serialized(value, MAX)
    /\ pc' = "done"
    /\ UNCHANGED <<live, opened, nextId>>
    /\ UNCHANGED <<op, MAX_LEN, len, writer, value, MAX, limited, createOk, file,
                   dty, sys, spec, data, reader>>

StrictSerializeToFile ==
    /\ pc = "call" /\ op = "strict_serialize_to_file"
    /\ LET r == strict_serialize_to_file(value, MAX, file)
       IN  result' = r.out /\ file' = r.file
    /\ pc' = "done"
    /\ UNCHANGED <<live, opened, nextId>>
    /\ UNCHANGED <<op, MAX_LEN, len, writer, value, MAX, limited, createOk,
                   dty, sys, spec, data, reader>>

FromStrictSerialized ==
    /\ pc = "call" /\ op = "from_strict_serialized"
    /\ result' = from_strict_serialized(dty, data)
    /\ pc' = "done"
    /\ UNCHANGED <<live, opened, nextId>>
    /\ UNCHANGED <<op, MAX_LEN, len, writer, value, MAX, limited, createOk, file,
                   dty, sys, spec, data, reader>>

StrictDeserializeFromFile ==
    /\ pc = "call" /\ op = "strict_deserialize_from_file"
    /\ result' = strict_deserialize_from_file(dty, file)
    /\ pc' = "done"
    /\ UNCHANGED <<live, opened, nextId>>
    /\ UNCHANGED <<op, MAX_LEN, len, writer, value, MAX, limited, createOk, file,
                   dty, sys, spec, data, reader>>

NextSerde ==
    \/ ToStrictSerialized
    \/ StrictSerializeToFile
    \/ FromStrictSerialized
    \/ StrictDeserializeFromFile

SpecSerde == InitSerde /\ [][NextSerde]_vars

-----------------------------------------------------------------------------
(* StrictVal, the generic value load produces.  Every value is a record of
   the same shape: its kind, its tag (enum, union) and its content *)

V(k, tag, v) == [k |-> k, tag |-> tag, v |-> v]

\* StrictVal::num: the integer widened to 128 bits, zero-extended when
\* unsigned and sign-extended when signed; bytes are the wire bytes
Num(bytes, signed) ==
    LET fill == IF signed /\ bytes[Len(bytes)] >= 128 THEN 255 ELSE 0
    IN  V("Number", IF signed THEN "Int" ELSE "Uint",
          [i \in 1..16 |-> IF 17 - i <= Len(bytes) THEN bytes[17 - i] ELSE fill])
Enumer(tag)      == V("Enum", tag, Unused)
UnionVal(tag, v) == V("Union", tag, v)
TupleVal(fields) == V("Tuple", 0, fields)
StructVal(map)   == V("Struct", 0, map)
ListVal(list)    == V("List", 0, list)
SetVal(list)     == V("Set", 0, list)
MapVal(list)     == V("Map", 0, list)
StringVal(chars) == V("String", 0, chars)

TypedVal(val, sp) == [val |-> val, spec |-> sp]

\* IndexMap::insert: a new key goes last, a known key keeps its place
IndexMapInsertFront(m, name, v) ==
    IF \E i \in 1..Len(m) : m[i][1] = name
    THEN [i \in 1..Len(m) |-> IF m[i][1] = name THEN <<name, v>> ELSE m[i]]
    ELSE <<<<name, v>>>> \o m

IndexMapInsert(m, name, v) ==
    IF \E i \in 1..Len(m) : m[i][1] = name
    THEN [i \in 1..Len(m) |-> IF m[i][1] = name THEN <<name, v>> ELSE m[i]]
    ELSE Append(m, <<name, v>>)

-----------------------------------------------------------------------------
(* Text: String::from_utf8 and AsciiString, as sequences of code points *)

IsCont(b) == 128 <= b /\ b <= 191

RECURSIVE Utf8Decode(_, _, _)
Utf8Decode(b, i, acc) ==
    IF i > Len(b) THEN [ok |-> TRUE, chars |-> acc]
    ELSE IF b[i] < 128 THEN Utf8Decode(b, i + 1, Append(acc, b[i]))
    ELSE IF 194 <= b[i] /\ b[i] <= 223 /\ i + 1 <= Len(b) /\ IsCont(b[i + 1])
         THEN Utf8Decode(b, i + 2, Append(acc, (b[i] - 192) * 64 + (b[i + 1] - 128)))
    ELSE IF 224 <= b[i] /\ b[i] <= 239 /\ i + 2 <= Len(b)
            /\ IsCont(b[i + 1]) /\ IsCont(b[i + 2])
         THEN LET cp == (b[i] - 224) * 4096 + (b[i + 1] - 128) * 64 + (b[i + 2] - 128)
              IN  IF cp >= 2048 /\ ~(55296 <= cp /\ cp <= 57343)
                  THEN Utf8Decode(b, i + 3, Append(acc, cp))
                  ELSE [ok |-> FALSE, chars |-> acc]
    ELSE IF 240 <= b[i] /\ b[i] <= 244 /\ i + 3 <= Len(b)
            /\ IsCont(b[i + 1]) /\ IsCont(b[i + 2]) /\ IsCont(b[i + 3])
         THEN LET cp == (b[i] - 240) * 262144 + (b[i + 1] - 128) * 4096
                        + (b[i + 2] - 128) * 64 + (b[i + 3] - 128)
              IN  IF cp >= 65536 /\ cp <= 1114111
                  THEN Utf8Decode(b, i + 4, Append(acc, cp))
                  ELSE [ok |-> FALSE, chars |-> acc]
    ELSE [ok |-> FALSE, chars |-> acc]

\* Confined<String>::strict_decode behind a prefix of w bytes (TinyString 1,
\* SmallString 2, MediumString 3, LargeString 4), then into_inner
DecodeString(rd, w) ==
    LET n == ReadExact(data, rd, w)
    IN  IF n.res # "Ok" THEN n
        ELSE LET b == ReadExactWide(data, n.rd, FromLe(n.val))
             IN  IF b.res # "Ok" THEN b
                 ELSE LET u == Utf8Decode(b.val, 1, <<>>)
                      IN  IF u.ok THEN ROk(u.chars, b.rd) ELSE RErr(E("Utf8"), b.rd)

\* Confined<AsciiString>::strict_decode behind a prefix of w bytes, then
\* to_string: every AsciiChar becomes the char of the same code
DecodeAscii(rd, w) ==
    LET n == ReadExact(data, rd, w)
    IN  IF n.res # "Ok" THEN n
        ELSE LET b == ReadExactWide(data, n.rd, FromLe(n.val))
             IN  IF b.res # "Ok" THEN b
                 ELSE IF \A i \in 1..Len(b.val) : b.val[i] <= 127
                      THEN ROk([i \in 1..Len(b.val) |-> b.val[i]], b.rd)
                      ELSE RErr(E("Ascii"), b.rd)

-----------------------------------------------------------------------------
(* The type system: SemId -> Ty *)

Sizing(max) == [min |-> Wide(0), max |-> max]

PrimWidth == [U8 |-> 1, U16 |-> 2, U24 |-> 3, U32 |-> 4, U64 |-> 8, U128 |-> 16,
              I8 |-> 1, I16 |-> 2, I32 |-> 4, I64 |-> 8, I128 |-> 16]
SignedPrims == {"I8", "I16", "I32", "I64", "I128"}

Prim(p) == [kind |-> "Primitive", prim |-> p]

\* the types whose length prefix depends on the declared maximum
SizedIds == {"ListU8", "ListEnum", "SetU8", "MapU8Enum", "String", "AsciiStr",
             "SetUnicode", "SetAscii", "MapUnicode", "Nominal"}

TestSystem(max) ==
    [U8 |-> Prim("U8"), U16 |-> Prim("U16"), U24 |-> Prim("U24"), U32 |-> Prim("U32"),
     U64 |-> Prim("U64"), I8 |-> Prim("I8"), I16 |-> Prim("I16"), I24 |-> Prim("I24"),
     F32 |-> Prim("F32"),
     Unicode |-> [kind |-> "UnicodeChar"],
     Ascii   |-> [kind |-> "Enum", tags |-> 0..127],
     Enum    |-> [kind |-> "Enum", tags |-> {0, 2}],
     Unit    |-> [kind |-> "Tuple", reqs |-> <<>>],
     Union   |-> [kind |-> "Union",
                  variants |-> (0 :> "U16" @@ 2 :> "Enum" @@ 169 :> "Unit")],
     Tuple   |-> [kind |-> "Tuple", reqs |-> <<"U8", "Enum", "U8">>],
     Struct  |-> [kind |-> "Struct",
                  reqs |-> <<[name |-> "b", ty |-> "U8"], [name |-> "a", ty |-> "U16"]>>],
     Array   |-> [kind |-> "Array", ty |-> "U8", len |-> 2],
     TupleArray |-> [kind |-> "Tuple", reqs |-> <<"U8", "Array">>],
     StructChar |-> [kind |-> "Struct",
                     reqs |-> <<[name |-> "n", ty |-> "U8"], [name |-> "c", ty |-> "Unicode"]>>],
     ListU8     |-> [kind |-> "List", ty |-> "U8", sizing |-> Sizing(max)],
     ListEnum   |-> [kind |-> "List", ty |-> "Enum", sizing |-> Sizing(max)],
     SetU8      |-> [kind |-> "Set", ty |-> "U8", sizing |-> Sizing(max)],
     MapU8Enum  |-> [kind |-> "Map", key |-> Prim("U8"), ty |-> "Enum",
                     sizing |-> Sizing(max)],
     String     |-> [kind |-> "List", ty |-> "Unicode", sizing |-> Sizing(max)],
     AsciiStr   |-> [kind |-> "List", ty |-> "Ascii", sizing |-> Sizing(max)],
     SetUnicode |-> [kind |-> "Set", ty |-> "Unicode", sizing |-> Sizing(max)],
     SetAscii   |-> [kind |-> "Set", ty |-> "Ascii", sizing |-> Sizing(max)],
     MapUnicode |-> [kind |-> "Map", key |-> Prim("U8"), ty |-> "Unicode",
                     sizing |-> Sizing(max)],
     Nominal    |-> [kind |-> "Struct",
                     reqs |-> <<[name |-> "name", ty |-> "String"],
                                [name |-> "ticker", ty |-> "AsciiStr"],
                                [name |-> "precision", ty |-> "Enum"]>>]]

\* SemId::is_unicode_char, SemId::is_ascii_char
is_unicode_char(id) == id = "Unicode"
is_ascii_char(id)   == id = "Ascii"
\* KeyTy::to_ty().id(None): the content-derived id of the key type
KeyTyId(key) == key.prim
\* TypeSpec::to_string
SpecText(sp) == <<"spec", sp>>

-----------------------------------------------------------------------------
(* TypeSystem::load, reify.rs *)

\* Vec::with_capacity(len) panics when the capacity in bytes passes
\* isize::MAX, which a len above isize::MAX does for any element size
CapacityOverflow(l) == WLt(ISIZE_MAX, l)

RECURSIVE load(_, _)
RECURSIVE ReadListFrom(_, _, _, _, _)
RECURSIVE ReadMapFrom(_, _, _, _, _, _)
RECURSIVE LoadTupleFrom(_, _, _, _)
RECURSIVE LoadStructFrom(_, _, _, _)

\* the loop of read_list: elements i.. of l, each read where the last ended
ReadListFrom(l, ty, rd, i, list) ==
    IF i = l THEN ROk(list, rd)
    ELSE LET item == load(ty, rd)
         IN  IF item.res # "Ok" THEN item
             ELSE ReadListFrom(l, ty, item.rd, WSucc(i), Append(list, item.val.val))

read_list(l, ty, rd) ==
    IF CapacityOverflow(l) THEN RPanic("capacity overflow", rd)
    ELSE ReadListFrom(l, ty, rd, Wide(0), <<>>)

\* the loop of read_map: the key, then the value, of every entry
ReadMapFrom(l, key_ty, ty, rd, i, list) ==
    IF i = l THEN ROk(list, rd)
    ELSE LET key == load(key_ty, rd)
         IN  IF key.res # "Ok" THEN key
             ELSE LET item == load(ty, key.rd)
                  IN  IF item.res # "Ok" THEN item
                      ELSE ReadMapFrom(l, key_ty, ty, item.rd, WSucc(i),
                                       Append(list, <<key.val.val, item.val.val>>))

read_map(l, key_ty, ty, rd) ==
    IF CapacityOverflow(l) THEN RPanic("capacity overflow", rd)
    ELSE ReadMapFrom(l, key_ty, ty, rd, Wide(0), <<>>)

LoadPrimitive(sp, ty, rd) ==
    IF ty.prim \in DOMAIN PrimWidth
    THEN LET r == ReadExact(data, rd, PrimWidth[ty.prim])
         IN  IF r.res # "Ok" THEN r
             ELSE ROk(TypedVal(Num(r.val, ty.prim \in SignedPrims), sp), r.rd)
    ELSE RErr(NotImplemented, rd)

LoadEnumUnchecked(sp, ty, rd) ==
    LET tag == ReadExact(data, rd, 1)
    IN  IF tag.res # "Ok" THEN tag
        ELSE ROk(TypedVal(Enumer(tag.val[1]), sp), tag.rd)

LoadEnum(sp, ty, rd) ==
    LET tag == ReadExact(data, rd, 1)
    IN  IF tag.res # "Ok" THEN tag
        ELSE IF tag.val[1] \notin ty.tags
             THEN RErr(EnumTagNotKnown(SpecText(sp), tag.val[1]), tag.rd)
        ELSE ROk(TypedVal(Enumer(tag.val[1]), sp), tag.rd)

LoadUnion(sp, ty, rd) ==
    LET tag == ReadExact(data, rd, 1)
    IN  IF tag.res # "Ok" THEN tag
        ELSE IF tag.val[1] \notin DOMAIN ty.variants
             THEN RErr(EnumTagNotKnown(SpecText(sp), tag.val[1]), tag.rd)
        ELSE LET fields == load(ty.variants[tag.val[1]], tag.rd)
             IN  IF fields.res # "Ok" THEN fields
                 ELSE ROk(TypedVal(UnionVal(tag.val[1], fields.val.val), sp), fields.rd)

LoadTupleFrom(reqs, i, rd, fields) ==
    IF i > Len(reqs) THEN ROk(fields, rd)
    ELSE LET checked == load(reqs[i], rd)
         IN  IF checked.res # "Ok" THEN checked
             ELSE LoadTupleFrom(reqs, i + 1, checked.rd, Append(fields, checked.val.val))

LoadTuple(sp, ty, rd) ==
    LET r == LoadTupleFrom(ty.reqs, 1, rd, <<>>)
    IN  IF r.res # "Ok" THEN r ELSE ROk(TypedVal(TupleVal(r.val), sp), r.rd)

LoadStructFrom(reqs, i, rd, fields) ==
    IF i > Len(reqs) THEN ROk(fields, rd)
    ELSE LET checked == load(reqs[i].ty, rd)
         IN  IF checked.res # "Ok" THEN checked
             ELSE LoadStructFrom(reqs, i + 1, checked.rd,
                                 IndexMapInsert(fields, reqs[i].name, checked.val.val))

LoadStruct(sp, ty, rd) ==
    LET r == LoadStructFrom(ty.reqs, 1, rd, <<>>)
    IN  IF r.res # "Ok" THEN r ELSE ROk(TypedVal(StructVal(r.val), sp), r.rd)

\* the guards of the string arms: 1 Tiny, 2 Small, 3 Medium, 4 Large, 0 none
UnicodeStringTierExclusive(max) ==
    IF WLt(max, U8_MAX) THEN 1
    ELSE IF WLt(max, U16_MAX) THEN 2
    ELSE IF WLt(max, U24_MAX) THEN 3
    ELSE IF WLt(max, U32_MAX) THEN 4
    ELSE 0

UnicodeStringTier(max) ==
    IF WLe(max, U8_MAX) THEN 1
    ELSE IF WLe(max, U16_MAX) THEN 2
    ELSE IF WLe(max, U24_MAX) THEN 3
    ELSE IF WLe(max, U32_MAX) THEN 4
    ELSE 0

AsciiStringTier(max) ==
    IF WLe(max, U8_MAX) THEN 1
    ELSE IF WLe(max, U16_MAX) THEN 2
    ELSE IF WLe(max, U24_MAX) THEN 3
    ELSE IF WLe(max, U32_MAX) THEN 4
    ELSE 0

\* the guards of the other arms: the width of the length that is read
ListLenWidth(max) ==
    IF WLe(max, U8_MAX) THEN 1
    ELSE IF WLe(max, U16_MAX) THEN 2
    ELSE IF WLe(max, U24_MAX) THEN 3
    ELSE IF WLe(max, U32_MAX) THEN 4
    ELSE 8

SetLenWidth(max) ==
    IF WLe(max, U8_MAX) THEN 1
    ELSE IF WLe(max, U16_MAX) THEN 2
    ELSE IF WLe(max, U24_MAX) THEN 3
    ELSE IF WLe(max, U32_MAX) THEN 4
    ELSE 8

MapLenWidth(max) ==
    IF WLe(max, U8_MAX) THEN 1
    ELSE IF WLe(max, U16_MAX) THEN 2
    ELSE IF WLe(max, U24_MAX) THEN 3
    ELSE IF WLe(max, U32_MAX) THEN 4
    ELSE 8

LoadList(sp, ty, rd) ==
    IF is_unicode_char(ty.ty) /\ UnicodeStringTier(ty.sizing.max) # 0
    THEN LET string == DecodeString(rd, UnicodeStringTier(ty.sizing.max))
         IN  IF string.res # "Ok" THEN string
             ELSE ROk(TypedVal(StringVal(string.val), sp), string.rd)
    ELSE IF is_ascii_char(ty.ty) /\ AsciiStringTier(ty.sizing.max) # 0
    THEN LET string == DecodeAscii(rd, AsciiStringTier(ty.sizing.max))
         IN  IF string.res # "Ok" THEN string
             ELSE ROk(TypedVal(StringVal(string.val), sp), string.rd)
    ELSE LET l == ReadExact(data, rd, ListLenWidth(ty.sizing.max))
         IN  IF l.res # "Ok" THEN l
             ELSE LET list == read_list(FromLe(l.val), ty.ty, l.rd)
                  IN  IF list.res # "Ok" THEN list
                      ELSE ROk(TypedVal(ListVal(list.val), sp), list.rd)

LoadSet(sp, ty, rd) ==
    LET l == ReadExact(data, rd, SetLenWidth(ty.sizing.max))
    IN  IF l.res # "Ok" THEN l
        ELSE LET list == read_list(FromLe(l.val), ty.ty, l.rd)
             IN  IF list.res # "Ok" THEN list
                 ELSE ROk(TypedVal(SetVal(list.val), sp), list.rd)

LoadMap(sp, ty, rd) ==
    LET l == ReadExact(data, rd, MapLenWidth(ty.sizing.max))
    IN  IF l.res # "Ok" THEN l
        ELSE LET list == read_map(FromLe(l.val), KeyTyId(ty.key), ty.ty, l.rd)
             IN  IF list.res # "Ok" THEN list
                 ELSE ROk(TypedVal(MapVal(list.val), sp), list.rd)

load(sp, rd) ==
    IF sp \notin DOMAIN sys THEN RErr(TypeAbsent(sp), rd)
    ELSE LET ty == sys[sp]
         IN  IF ty.kind = "Primitive" THEN LoadPrimitive(sp, ty, rd)
             ELSE IF ty.kind = "UnicodeChar" THEN RPanic("not yet implemented", rd)
             ELSE IF ty.kind = "Enum" THEN LoadEnum(sp, ty, rd)
             ELSE IF ty.kind = "Union" THEN LoadUnion(sp, ty, rd)
             ELSE IF ty.kind = "Tuple" THEN LoadTuple(sp, ty, rd)
             ELSE IF ty.kind = "Struct" THEN LoadStruct(sp, ty, rd)
             ELSE IF ty.kind = "Array" THEN RPanic("not yet implemented", rd)
             ELSE IF ty.kind = "List" THEN LoadList(sp, ty, rd)
             ELSE IF ty.kind = "Set" THEN LoadSet(sp, ty, rd)
             ELSE LoadMap(sp, ty, rd)

-----------------------------------------------------------------------------
(* The load specification *)

\* declared maxima of the sized types, at and around every tier boundary
Maxima ==
    LET at == {U8_MAX, U16_MAX, U24_MAX, U32_MAX}
    IN  {U64_MAX} \cup at \cup {WPred(a) : a \in at} \cup {WSucc(a) : a \in at}

\* byte sources: every short one, and those that open with a byte and six
\* zero bytes, which hold the wider length prefixes
Streams ==
    SeqsUpTo(Bytes, MaxStreamLen)
    \cup {<<h, 0, 0, 0, 0, 0, 0>> \o t : h \in Bytes, t \in SeqsUpTo(Bytes, MaxStreamLen - 1)}

Specs == DOMAIN TestSystem(U8_MAX) \cup {"Absent"}

InitLoad ==
    /\ pc = "call"
    /\ live = Unused /\ opened = Unused /\ nextId = 0
    /\ op = "load"
    /\ spec \in Specs
    /\ \E max \in Maxima :
          /\ spec \notin SizedIds => max = U8_MAX
          /\ sys = TestSystem(max)
    /\ data \in Streams
    /\ reader = NewReader
    /\ result = Unused
    /\ MAX_LEN = Unused /\ len = Unused /\ writer = Unused /\ value = Unused
    /\ MAX = 0 /\ limited = FALSE /\ createOk = FALSE /\ file = Unused
    /\ dty = Unused

LoadCall ==
    /\ pc = "call" /\ op = "load"
    /\ LET r == load(spec, reader)
       IN  /\ reader' = r.rd
           /\ result' = IF r.res = "Ok" THEN Ok(r.val)
                        ELSE IF r.res = "Err" THEN Err(r.err)
                        ELSE Panic(r.msg)
    /\ pc' = "done"
    /\ UNCHANGED <<live, opened, nextId>>
    /\ UNCHANGED <<op, MAX_LEN, len, writer, value, MAX, limited, createOk, file,
                   dty, sys, spec, data>>

NextLoad == LoadCall

SpecLoad == InitLoad /\ [][NextLoad]_vars

-----------------------------------------------------------------------------
\* The builder traits: TypedWrite and the definers and writers it hands
\* out.  Every method takes `self` by value and returns the next builder
\* value; what type that is, is fixed by the trait's type parameter P or
\* its associated types.

\* how many contexts one run opens
MaxContexts == 3

\* a builder value: its type (kind), the context it stands for (id), the
\* value that was moved into it when it was opened (the P of DefineTuple<P>,
\* the Parent of DefineUnion), and how many fields or variants it has taken
Builder(kind, id, p) == [kind |-> kind, id |-> id, parent |-> p, n |-> 0]

\* the TypedWrite the caller starts from
RootWriter == [kind |-> "Writer", id |-> 0, parent |-> Unused, n |-> 0]

\* fn define_union(self, ..) -> Self::UnionDefiner, DefineUnion<Parent = Self>
TypedWrite_define_union(w, id) == Builder("UnionDefiner", id, w)
\* fn define_enum(self, ..) -> Self::EnumDefiner, DefineEnum<Parent = Self>
TypedWrite_define_enum(w, id) == Builder("EnumDefiner", id, w)
\* fn write_tuple(self, ..) -> Self::TupleWriter, WriteTuple<Self>
TypedWrite_write_tuple(w, id) == Builder("TupleWriter", id, w)
\* fn write_struct(self, ..) -> Self::StructWriter, WriteStruct<Self>
TypedWrite_write_struct(w, id) == Builder("StructWriter", id, w)

\* fn define_field(self) -> Self and fn define_field_ord(self, ord) -> Self
DefineTuple_define_field(b) == [b EXCEPT !.n = @ + 1]
\* fn complete(self) -> P
DefineTuple_complete(b) == b.parent

\* fn write_field(self, value) -> io::Result<Self>, and write_field_ord
WriteTuple_write_field(b, ok) ==
    IF ok THEN Ok([b EXCEPT !.n = @ + 1]) ELSE Err(E("Io"))
\* a completion that unwinds to the outermost writer
RECURSIVE WriteTuple_complete_Outermost(_)
WriteTuple_complete_Outermost(b) ==
    IF b.kind = "Writer" THEN b ELSE WriteTuple_complete_Outermost(b.parent)
\* fn complete(self) -> P
WriteTuple_complete(b) == b.parent

\* fn define_field(self, name) -> Self and define_field_ord
DefineStruct_define_field(b) == [b EXCEPT !.n = @ + 1]
\* fn complete(self) -> P
DefineStruct_complete(b) == b.parent

\* fn write_field(self, name, value) -> io::Result<Self>, and write_field_ord
WriteStruct_write_field(b, ok) ==
    IF ok THEN Ok([b EXCEPT !.n = @ + 1]) ELSE Err(E("Io"))
\* fn complete(self) -> P
WriteStruct_complete(b) == b.parent

\* fn define_variant(self, name, value) -> Self
DefineEnum_define_variant(b) == [b EXCEPT !.n = @ + 1]
\* fn complete(self) -> Self::EnumWriter, WriteEnum<Parent = Self::Parent>
DefineEnum_complete(b) == Builder("EnumWriter", b.id, b.parent)

\* fn write_variant(self, name) -> io::Result<Self>
WriteEnum_write_variant(b, ok) ==
    IF ok THEN Ok([b EXCEPT !.n = @ + 1]) ELSE Err(E("Io"))
\* fn complete(self) -> Self::Parent
WriteEnum_complete(b) == b.parent

\* fn define_unit(self, name) -> Self
DefineUnion_define_unit(b) == [b EXCEPT !.n = @ + 1]
\* fn define_tuple(self, name) -> Self::TupleDefiner, DefineTuple<Self>
DefineUnion_define_tuple(b, id) == Builder("TupleDefiner", id, b)
\* fn define_struct(self, name) -> Self::StructDefiner, DefineStruct<Self>
DefineUnion_define_struct(b, id) == Builder("StructDefiner", id, b)
\* fn define_type(self, name) -> Self:
\*     self.define_tuple(name).define_field::<T>().complete()
DefineUnion_define_type(b, id) ==
    DefineTuple_complete(DefineTuple_define_field(DefineUnion_define_tuple(b, id)))
\* fn complete(self) -> Self::UnionWriter, WriteUnion<Parent = Self::Parent>
DefineUnion_complete(b) == Builder("UnionWriter", b.id, b.parent)

\* fn write_unit(self, name) -> io::Result<Self>
WriteUnion_write_unit(b, ok) ==
    IF ok THEN Ok([b EXCEPT !.n = @ + 1]) ELSE Err(E("Io"))
\* fn write_tuple(self, name) -> io::Result<Self::TupleWriter>, WriteTuple<Self>
WriteUnion_write_tuple(b, id, ok) ==
    IF ok THEN Ok(Builder("TupleWriter", id, b)) ELSE Err(E("Io"))
\* fn write_struct(self, name) -> io::Result<Self::StructWriter>, WriteStruct<Self>
WriteUnion_write_struct(b, id, ok) ==
    IF ok THEN Ok(Builder("StructWriter", id, b)) ELSE Err(E("Io"))
\* fn write_type(self, name, value) -> io::Result<Self>:
\*     Ok(self.write_tuple(name)?.write_field(value)?.complete())
WriteUnion_write_type(b, id, ok1, ok2) ==
    LET t == WriteUnion_write_tuple(b, id, ok1)
    IN  IF t.res # "Ok" THEN t
        ELSE LET f == WriteTuple_write_field(t.val, ok2)
             IN  IF f.res # "Ok" THEN f ELSE Ok(WriteTuple_complete(f.val))
\* fn complete(self) -> Self::Parent
WriteUnion_complete(b) == b.parent

\* fn write_type(self, ns, name, value) -> io::Result<Self>:
\*     Ok(self.write_tuple(ns, name).write_field(value)?.complete())
TypedWrite_write_type(w, id, ok) ==
    LET f == WriteTuple_write_field(TypedWrite_write_tuple(w, id), ok)
    IN  IF f.res # "Ok" THEN f ELSE Ok(WriteTuple_complete(f.val))

\* one method call: `self` is moved out of the caller's hands and what the
\* method returns is moved in; an Err drops the builder and, with it, every
\* context it was holding
Call(b, name, r, stack, ids) ==
    /\ live' = (live \ {b}) \cup (IF r.res = "Ok" THEN {r.val} ELSE {})
    /\ opened' = IF r.res = "Ok" THEN stack ELSE <<>>
    /\ nextId' = ids
    /\ op' = name
    /\ result' = r
    /\ UNCHANGED <<pc, MAX_LEN, len, writer, value, MAX, limited, createOk,
                   file, dty, sys, spec, data, reader>>

InitBuild ==
    /\ pc = "build"
    /\ op = <<"StrictWriter", "new">>
    /\ live = {RootWriter} /\ opened = <<>> /\ nextId = 0
    /\ result = Unused
    /\ MAX_LEN = Unused /\ len = Unused /\ writer = Unused
    /\ value = Unused /\ MAX = 0 /\ limited = FALSE /\ createOk = FALSE
    /\ file = Unused /\ dty = Unused /\ sys = Unused /\ spec = Unused
    /\ data = Unused /\ reader = Unused

TypedWriteDefineUnion ==
    \E w \in live :
        /\ w.kind = "Writer" /\ nextId < MaxContexts
        /\ Call(w, <<"TypedWrite", "define_union">>,
                Ok(TypedWrite_define_union(w, nextId + 1)), <<w>> \o opened, nextId + 1)

TypedWriteDefineEnum ==
    \E w \in live :
        /\ w.kind = "Writer" /\ nextId < MaxContexts
        /\ Call(w, <<"TypedWrite", "define_enum">>,
                Ok(TypedWrite_define_enum(w, nextId + 1)), <<w>> \o opened, nextId + 1)

TypedWriteWriteTuple ==
    \E w \in live :
        /\ w.kind = "Writer" /\ nextId < MaxContexts
        /\ Call(w, <<"TypedWrite", "write_tuple">>,
                Ok(TypedWrite_write_tuple(w, nextId + 1)), <<w>> \o opened, nextId + 1)

TypedWriteWriteStruct ==
    \E w \in live :
        /\ w.kind = "Writer" /\ nextId < MaxContexts
        /\ Call(w, <<"TypedWrite", "write_struct">>,
                Ok(TypedWrite_write_struct(w, nextId + 1)), <<w>> \o opened, nextId + 1)

TypedWriteWriteType ==
    \E w \in live, ok \in BOOLEAN :
        /\ w.kind = "Writer" /\ nextId < MaxContexts
        /\ Call(w, <<"TypedWrite", "write_type">>,
                TypedWrite_write_type(w, nextId + 1, ok), opened, nextId + 1)

DefineTupleDefineField ==
    \E b \in live, m \in {"define_field", "define_field_ord"} :
        /\ b.kind = "TupleDefiner" /\ b.n < MaxFields
        /\ Call(b, <<"DefineTuple", m>>, Ok(DefineTuple_define_field(b)), opened, nextId)

DefineTupleComplete ==
    \E b \in live :
        /\ b.kind = "TupleDefiner"
        /\ Call(b, <<"DefineTuple", "complete">>, Ok(DefineTuple_complete(b)),
                Tail(opened), nextId)

WriteTupleWriteField ==
    \E b \in live, m \in {"write_field", "write_field_ord"}, ok \in BOOLEAN :
        /\ b.kind = "TupleWriter" /\ b.n < MaxFields
        /\ Call(b, <<"WriteTuple", m>>, WriteTuple_write_field(b, ok), opened, nextId)

WriteTupleComplete ==
    \E b \in live :
        /\ b.kind = "TupleWriter"
        /\ Call(b, <<"WriteTuple", "complete">>, Ok(WriteTuple_complete(b)),
                Tail(opened), nextId)

DefineStructDefineField ==
    \E b \in live, m \in {"define_field", "define_field_ord"} :
        /\ b.kind = "StructDefiner" /\ b.n < MaxFields
        /\ Call(b, <<"DefineStruct", m>>, Ok(DefineStruct_define_field(b)), opened, nextId)

DefineStructComplete ==
    \E b \in live :
        /\ b.kind = "StructDefiner"
        /\ Call(b, <<"DefineStruct", "complete">>, Ok(DefineStruct_complete(b)),
                Tail(opened), nextId)

WriteStructWriteField ==
    \E b \in live, m \in {"write_field", "write_field_ord"}, ok \in BOOLEAN :
        /\ b.kind = "StructWriter" /\ b.n < MaxFields
        /\ Call(b, <<"WriteStruct", m>>, WriteStruct_write_field(b, ok), opened, nextId)

WriteStructComplete ==
    \E b \in live :
        /\ b.kind = "StructWriter"
        /\ Call(b, <<"WriteStruct", "complete">>, Ok(WriteStruct_complete(b)),
                Tail(opened), nextId)

DefineEnumDefineVariant ==
    \E b \in live :
        /\ b.kind = "EnumDefiner" /\ b.n < MaxFields
        /\ Call(b, <<"DefineEnum", "define_variant">>,
                Ok(DefineEnum_define_variant(b)), opened, nextId)

DefineEnumComplete ==
    \E b \in live :
        /\ b.kind = "EnumDefiner"
        /\ Call(b, <<"DefineEnum", "complete">>, Ok(DefineEnum_complete(b)),
                opened, nextId)

WriteEnumWriteVariant ==
    \E b \in live, ok \in BOOLEAN :
        /\ b.kind = "EnumWriter" /\ b.n < MaxFields
        /\ Call(b, <<"WriteEnum", "write_variant">>,
                WriteEnum_write_variant(b, ok), opened, nextId)

WriteEnumComplete ==
    \E b \in live :
        /\ b.kind = "EnumWriter"
        /\ Call(b, <<"WriteEnum", "complete">>, Ok(WriteEnum_complete(b)),
                Tail(opened), nextId)

DefineUnionDefineUnit ==
    \E b \in live :
        /\ b.kind = "UnionDefiner" /\ b.n < MaxFields
        /\ Call(b, <<"DefineUnion", "define_unit">>,
                Ok(DefineUnion_define_unit(b)), opened, nextId)

DefineUnionDefineType ==
    \E b \in live :
        /\ b.kind = "UnionDefiner" /\ nextId < MaxContexts
        /\ Call(b, <<"DefineUnion", "define_type">>,
                Ok(DefineUnion_define_type(b, nextId + 1)), opened, nextId + 1)

DefineUnionDefineTuple ==
    \E b \in live :
        /\ b.kind = "UnionDefiner" /\ nextId < MaxContexts
        /\ Call(b, <<"DefineUnion", "define_tuple">>,
                Ok(DefineUnion_define_tuple(b, nextId + 1)), <<b>> \o opened, nextId + 1)

DefineUnionDefineStruct ==
    \E b \in live :
        /\ b.kind = "UnionDefiner" /\ nextId < MaxContexts
        /\ Call(b, <<"DefineUnion", "define_struct">>,
                Ok(DefineUnion_define_struct(b, nextId + 1)), <<b>> \o opened, nextId + 1)

DefineUnionComplete ==
    \E b \in live :
        /\ b.kind = "UnionDefiner"
        /\ Call(b, <<"DefineUnion", "complete">>, Ok(DefineUnion_complete(b)),
                opened, nextId)

WriteUnionWriteUnit ==
    \E b \in live, ok \in BOOLEAN :
        /\ b.kind = "UnionWriter" /\ b.n < MaxFields
        /\ Call(b, <<"WriteUnion", "write_unit">>,
                WriteUnion_write_unit(b, ok), opened, nextId)

WriteUnionWriteType ==
    \E b \in live, ok1 \in BOOLEAN, ok2 \in BOOLEAN :
        /\ b.kind = "UnionWriter" /\ nextId < MaxContexts
        /\ Call(b, <<"WriteUnion", "write_type">>,
                WriteUnion_write_type(b, nextId + 1, ok1, ok2), opened, nextId + 1)

WriteUnionWriteTuple ==
    \E b \in live, ok \in BOOLEAN :
        /\ b.kind = "UnionWriter" /\ nextId < MaxContexts
        /\ Call(b, <<"WriteUnion", "write_tuple">>,
                WriteUnion_write_tuple(b, nextId + 1, ok), <<b>> \o opened, nextId + 1)

WriteUnionWriteStruct ==
    \E b \in live, ok \in BOOLEAN :
        /\ b.kind = "UnionWriter" /\ nextId < MaxContexts
        /\ Call(b, <<"WriteUnion", "write_struct">>,
                WriteUnion_write_struct(b, nextId + 1, ok), <<b>> \o opened, nextId + 1)

WriteUnionComplete ==
    \E b \in live :
        /\ b.kind = "UnionWriter"
        /\ Call(b, <<"WriteUnion", "complete">>, Ok(WriteUnion_complete(b)),
                Tail(opened), nextId)

NextBuild ==
    \/ TypedWriteDefineUnion \/ TypedWriteDefineEnum
    \/ TypedWriteWriteTuple \/ TypedWriteWriteStruct \/ TypedWriteWriteType
    \/ DefineTupleDefineField \/ DefineTupleComplete
    \/ WriteTupleWriteField \/ WriteTupleComplete
    \/ DefineStructDefineField \/ DefineStructComplete
    \/ WriteStructWriteField \/ WriteStructComplete
    \/ DefineEnumDefineVariant \/ DefineEnumComplete
    \/ WriteEnumWriteVariant \/ WriteEnumComplete
    \/ DefineUnionDefineUnit \/ DefineUnionDefineType
    \/ DefineUnionDefineTuple \/ DefineUnionDefineStruct \/ DefineUnionComplete
    \/ WriteUnionWriteUnit \/ WriteUnionWriteType
    \/ WriteUnionWriteTuple \/ WriteUnionWriteStruct \/ WriteUnionComplete

SpecBuild == InitBuild /\ [][NextBuild]_vars

-----------------------------------------------------------------------------
\* TypedWrite::write_raw_collection: the length prefix of the tier of
\* MAX_LEN, then every item's own encoding

\* for item in col { self = item.strict_encode(self)?; } over the items
\* lo..hi: in order, the first half and then the second, stopping at the
\* first write that fails
RECURSIVE EncodeItems(_, _, _, _)
EncodeItems(col, lo, hi, w) ==
    IF lo > hi THEN [res |-> "Ok", w |-> w]
    ELSE IF lo = hi THEN WriterWrite(w, col[lo])
    ELSE LET mid == (lo + hi) \div 2
             r   == EncodeItems(col, lo, mid, w)
         IN  IF r.res # "Ok" THEN r ELSE EncodeItems(col, mid + 1, hi, r.w)

\* self.write_raw_len::<MAX_LEN>(col.len())?, which hands its bytes to the
\* writer; then the items
write_raw_collection(col, max_len, w) ==
    LET l == write_raw_len(max_len, Wide(Len(col)))
    IN  IF l.res # "Ok" THEN l
        ELSE LET p == WriterWrite(w, l.val)
             IN  IF p.res # "Ok" THEN p ELSE EncodeItems(col, 1, Len(col), p.w)

\* what the items encode to: one byte, or two
Items == {<<1>>, <<2, 169>>}

\* lengths around the largest that one byte holds
LongLens == {255, 256, 257}

\* collections, each item given by its encoding: every short one, and long
\* ones of items that differ from their neighbours
Collections ==
    SeqsUpTo(Items, MaxFields)
        \cup {[i \in 1..n |-> <<(i % 256)>>] : n \in LongLens}

\* a Confined<C, MIN_LEN, MAX_LEN> holds between MIN_LEN and MAX_LEN items;
\* MIN_LEN = 0 admits the collections of every other MIN_LEN
InitCollection ==
    /\ pc = "call"
    /\ live = Unused /\ opened = Unused /\ nextId = 0
    /\ op = "write_raw_collection"
    /\ MAX_LEN \in MaxLens
    /\ value \in {c \in Collections : WLe(Wide(Len(c)), MAX_LEN)}
    /\ len = Wide(Len(value))
    /\ limited \in BOOLEAN
    /\ MAX = MaxMAX
    /\ writer = <<>>
    /\ result = Unused
    /\ createOk = FALSE
    /\ file = Unused /\ dty = Unused /\ sys = Unused /\ spec = Unused
    /\ data = Unused /\ reader = Unused

WriteRawCollection ==
    /\ pc = "call"
    /\ op = "write_raw_collection"
    /\ LET r == write_raw_collection(value, MAX_LEN, NewWriter(MAX, writer))
       IN  /\ writer' = IF r.res = "Panic" THEN writer ELSE r.w.sink
           /\ result' = IF r.res = "Ok" THEN Ok(Unused)
                        ELSE IF r.res = "Err" THEN Err(r.err) ELSE r
    /\ pc' = "done"
    /\ UNCHANGED <<live, opened, nextId>>
    /\ UNCHANGED <<op, MAX_LEN, len, value, MAX, limited, createOk, file, dty,
                   sys, spec, data, reader>>

InitRaw == InitWrite \/ InitCollection

NextRaw == WriteRawLen \/ WriteRawCollection

SpecRaw == InitRaw /\ [][NextRaw]_vars

-----------------------------------------------------------------------------
\* the tier table of the claim, by ranges of MAX_LEN
C1_ExpectedWidth ==
    IF ~WLt(U8_MAX, MAX_LEN) THEN 1
    ELSE IF WLt(U8_MAX, MAX_LEN) /\ WLt(MAX_LEN, U16_MAX) THEN 2
    ELSE IF WLe(U16_MAX, MAX_LEN) /\ WLt(MAX_LEN, U24_MAX) THEN 3
    ELSE IF WLe(U24_MAX, MAX_LEN) /\ WLt(MAX_LEN, U32_MAX) THEN 4
    ELSE 0

(* C1: write_raw_len::<MAX_LEN> writes a 1-byte prefix for MAX_LEN in
   [0,255], 2 bytes in (255,65535), 3 bytes in [65535,16777215), 4 bytes in
   [16777215,4294967295); for MAX_LEN >= 4294967295 it panics and writes
   nothing. (A 3-byte prefix is written through u24::with, which panics
   on a length that does not fit 24 bits; then too nothing is written.) *)
C1_TierSelection ==
    (pc = "done" /\ op = "write_raw_len") =>
        /\ C1_ExpectedWidth = 0 =>
              result.res = "Panic" /\ writer = <<>>
        /\ C1_ExpectedWidth # 0 =>
              \/ result.res = "Ok" /\ Len(writer) = C1_ExpectedWidth
              \/ /\ result.res = "Panic" /\ writer = <<>>
                 /\ C1_ExpectedWidth = 3 /\ ~Fits24(len)

C1_Witness ==
    /\ pc = "done" /\ op = "write_raw_len"
    /\ MAX_LEN = U16_MAX
    /\ result.res = "Ok"
    /\ Len(writer) = 3

-----------------------------------------------------------------------------
\* the non-text collections of the type system
CollectionIds == {"ListU8", "ListEnum", "SetU8", "MapU8Enum"}
Loaded == pc = "done" /\ op = "load"
\* the width of the first read load made: the length prefix of a collection
PrefixWidthRead == reader.log[1][2]

(* C2: for every declared maximum M for which write_raw_len::<M> writes a
   prefix, the length prefix load reads for a non-text List, Set or Map
   with sizing.max = M is as wide as the one write_raw_len::<M> writes. *)
C2_TierDecodeMatchesEncode ==
    (Loaded /\ spec \in CollectionIds /\ reader.log # <<>>
        /\ WLt(sys[spec].sizing.max, U32_MAX)) =>
        LET w == write_raw_len(sys[spec].sizing.max, Wide(0))
        IN  w.res = "Ok" /\ Len(w.val) = PrefixWidthRead

-----------------------------------------------------------------------------
\* the bytes that are deserialized
C3_Source == IF op = "from_strict_serialized" THEN data ELSE file.bytes
\* the length of the encoding at the head of the source, -1 when the source
\* is too short to hold one
C3_Need ==
    LET d == C3_Source
    IN  IF dty = "u8" THEN (IF Len(d) >= 1 THEN 1 ELSE -1)
        ELSE IF dty = "u16" THEN (IF Len(d) >= 2 THEN 2 ELSE -1)
        ELSE IF Len(d) >= 1 /\ Len(d) >= 1 + d[1] THEN 1 + d[1] ELSE -1
C3_Opened == op = "from_strict_serialized" \/ (createOk /\ file.exists)

(* C3: from_strict_serialized and strict_deserialize_from_file return the
   decoded value only when decoding succeeded and nothing is left unread;
   when decoding succeeds and bytes remain they fail with
   DataNotEntirelyConsumed; a buffer (file) that holds exactly the value's
   encoding succeeds. *)
C3_StrictConsumption ==
    (pc = "done" /\ op \in {"from_strict_serialized", "strict_deserialize_from_file"}) =>
        /\ result.res = "Ok" => C3_Opened /\ C3_Need = Len(C3_Source)
        /\ (C3_Opened /\ C3_Need >= 0 /\ Len(C3_Source) > C3_Need) =>
               result = Err(DataNotEntirelyConsumed)
        /\ (C3_Opened /\ C3_Need = Len(C3_Source)) => result.res = "Ok"

C3_Witness ==
    /\ pc = "done" /\ op = "from_strict_serialized"
    /\ dty = "TinyBytes" /\ data = <<1, 2, 0>>
    /\ result = Err(DataNotEntirelyConsumed)

-----------------------------------------------------------------------------
\* the value does not fit MAX
C4_Oversize == Len(Flatten(value)) > MAX
C4_IsPrefix(p, s) == Len(p) <= Len(s) /\ SubSeq(s, 1, Len(p)) = p

(* C4: for every value whose encoding is longer than MAX,
   to_strict_serialized::<MAX> and strict_serialize_to_file::<MAX> fail with
   a serialize error, no buffer is returned, and the file does not end up
   holding a truncated part of the encoding. *)
C4_OversizeRejected ==
    (pc = "done" /\ op \in {"to_strict_serialized", "strict_serialize_to_file"}
        /\ C4_Oversize) =>
        /\ result.res = "Err"
        /\ op = "strict_serialize_to_file" =>
              ~(file.exists /\ file.bytes # <<>> /\ C4_IsPrefix(file.bytes, Flatten(value)))

\* the in-memory half of the claim, which the code keeps
C4_InMemoryRejected ==
    (pc = "done" /\ op = "to_strict_serialized" /\ C4_Oversize) => result.res = "Err"

-----------------------------------------------------------------------------
\* the tags (ordinals) the type declares
C5_Declared ==
    IF sys[spec].kind = "Enum" THEN sys[spec].tags ELSE DOMAIN sys[spec].variants

(* C5: when load decodes an Enum or a Union, a tag byte that the type does
   not declare makes it fail with EnumTagNotKnown carrying the text form of
   the specifier and the tag, having read the tag byte only; a declared
   tag of an enum gives the enum value of that tag; no load succeeds with
   an undeclared tag. *)
C5_TagValidation ==
    (Loaded /\ spec \in {"Enum", "Ascii", "Union"} /\ data # <<>>) =>
        /\ data[1] \notin C5_Declared =>
              /\ result = Err(EnumTagNotKnown(<<"spec", spec>>, data[1]))
              /\ reader.log = <<<<0, 1>>>>
        /\ (data[1] \in C5_Declared /\ sys[spec].kind = "Enum") =>
              result = Ok(TypedVal(V("Enum", data[1], Unused), spec))
        /\ (data[1] \in C5_Declared /\ result.res = "Err") =>
              result.err # EnumTagNotKnown(<<"spec", spec>>, data[1])
        /\ result.res = "Ok" =>
              data[1] \in C5_Declared /\ result.val.val.tag = data[1]

C5_Witness ==
    /\ Loaded /\ spec = "Union" /\ data = <<1, 0, 0>>
    /\ result = Err(EnumTagNotKnown(<<"spec", "Union">>, 1))

-----------------------------------------------------------------------------
(* C6: load of a type whose shape is a fixed-size array or a bare unicode
   scalar returns the NotImplemented error, as it does for an unsupported
   primitive, also when the shape is reached as a nested field. *)
C6_NotImplementedReturned ==
    /\ (Loaded /\ spec \in {"Array", "Unicode", "F32", "I24"}) =>
           result = Err(NotImplemented)
    /\ (Loaded /\ spec \in {"TupleArray", "StructChar"} /\ data # <<>>) =>
           result = Err(NotImplemented)

\* the half of the claim the code keeps: unsupported primitive kinds
C6_UnsupportedPrimitive ==
    (Loaded /\ spec \in {"F32", "I24"}) => result = Err(NotImplemented)

-----------------------------------------------------------------------------
\* the length the prefix states
C7_Stated == FromLe(SubSeq(data, 1, PrefixWidthRead))

(* C7: when load decodes a non-text List, Set or Map, a successful result
   holds exactly as many elements as the length prefix states, and every
   other outcome is a decode error. *)
C7_ExactCountOrError ==
    (Loaded /\ spec \in CollectionIds /\ reader.log # <<>>) =>
        /\ result.res = "Ok" => FromLe(<<Len(result.val.val.v)>>) = C7_Stated
        /\ result.res # "Ok" =>
              result.res = "Err" /\ result.err.kind \in DecodeKinds

\* what the code keeps: the same, for stated lengths Vec::with_capacity accepts
C7_ExactCountWhenAllocated ==
    (Loaded /\ spec \in CollectionIds /\ reader.log # <<>>
        /\ ~WLt(ISIZE_MAX, C7_Stated)) =>
        /\ result.res = "Ok" => FromLe(<<Len(result.val.val.v)>>) = C7_Stated
        /\ result.res # "Ok" =>
              result.res = "Err" /\ result.err.kind \in DecodeKinds

-----------------------------------------------------------------------------

\* the encoding of a value of a type: what the writer side emits for it.
\* Collections and strings go through write_raw_len; [ok, bytes]
Utf8Char(cp) ==
    IF cp < 128 THEN <<cp>>
    ELSE IF cp < 2048 THEN <<192 + (cp \div 64), 128 + (cp % 64)>>
    ELSE IF cp < 65536
         THEN <<224 + (cp \div 4096), 128 + ((cp \div 64) % 64), 128 + (cp % 64)>>
    ELSE <<240 + (cp \div 262144), 128 + ((cp \div 4096) % 64),
           128 + ((cp \div 64) % 64), 128 + (cp % 64)>>

RECURSIVE C8_Encode(_, _)
RECURSIVE C8_EncodeAll(_, _, _)
\* tys[i] is the type of the i-th item of vals
C8_EncodeAll(tys, vals, i) ==
    IF i > Len(vals) THEN [ok |-> TRUE, bytes |-> <<>>]
    ELSE LET h == C8_Encode(tys[i], vals[i])
             t == C8_EncodeAll(tys, vals, i + 1)
         IN  [ok |-> h.ok /\ t.ok, bytes |-> h.bytes \o t.bytes]

C8_Prefixed(max, n, body) ==
    LET p == write_raw_len(max, FromLe(<<n>>))
    IN  IF p.res = "Ok" THEN [ok |-> body.ok, bytes |-> p.val \o body.bytes]
        ELSE [ok |-> FALSE, bytes |-> <<>>]

C8_Encode(sp, v) ==
    LET ty == sys[sp]
    IN  IF ty.kind = "UnicodeChar" THEN [ok |-> TRUE, bytes |-> Utf8Char(v)]
        ELSE IF ty.kind = "Primitive"
        THEN [ok |-> TRUE, bytes |-> [i \in 1..PrimWidth[ty.prim] |-> v.v[17 - i]]]
        ELSE IF ty.kind = "Enum" THEN [ok |-> TRUE, bytes |-> <<v.tag>>]
        ELSE IF ty.kind = "Union"
        THEN LET b == C8_Encode(ty.variants[v.tag], v.v)
             IN  [ok |-> b.ok, bytes |-> <<v.tag>> \o b.bytes]
        ELSE IF ty.kind = "Tuple" THEN C8_EncodeAll(ty.reqs, v.v, 1)
        ELSE IF ty.kind = "Struct"
        THEN C8_EncodeAll([i \in 1..Len(ty.reqs) |-> ty.reqs[i].ty],
                          [i \in 1..Len(ty.reqs) |->
                              LET j == CHOOSE j \in 1..Len(v.v) : v.v[j][1] = ty.reqs[i].name
                              IN  v.v[j][2]], 1)
        ELSE IF v.k = "String"
        THEN LET body == C8_EncodeAll([i \in 1..Len(v.v) |-> "Unicode"], v.v, 1)
             IN  C8_Prefixed(ty.sizing.max, Len(body.bytes), body)
        ELSE IF ty.kind = "Map"
        THEN C8_Prefixed(ty.sizing.max, Len(v.v),
                 C8_EncodeAll([i \in 1..(2 * Len(v.v)) |->
                                  IF i % 2 = 1 THEN KeyTyId(ty.key) ELSE ty.ty],
                              [i \in 1..(2 * Len(v.v)) |-> v.v[(i + 1) \div 2][2 - (i % 2)]],
                              1))
        ELSE C8_Prefixed(ty.sizing.max, Len(v.v),
                 C8_EncodeAll([i \in 1..Len(v.v) |-> ty.ty], v.v, 1))

C8_InSequence ==
    /\ \A i \in 1..Len(reader.log) :
          reader.log[i][1] = IF i = 1 THEN 0
                             ELSE reader.log[i - 1][1] + reader.log[i - 1][2]
    /\ reader.pos = IF reader.log = <<>> THEN 0
                    ELSE reader.log[Len(reader.log)][1] + reader.log[Len(reader.log)][2]

(* C8: during load the byte source is read strictly in sequence - every
   read starts where the one before ended, the first at the start - and a
   successful load has consumed exactly the bytes of the value's encoding. *)
C8_SequentialExactConsumption ==
    Loaded =>
        /\ C8_InSequence
        /\ result.res = "Ok" =>
              LET e == C8_Encode(spec, result.val.val)
              IN  e.ok /\ e.bytes = SubSeq(data, 1, reader.pos)

\* what the code keeps: strictly sequential reads for every shape, and
\* exact consumption wherever load and write_raw_len agree on the tier
C8_SequentialReads == Loaded => C8_InSequence
C8_TiersAgree ==
    spec \in SizedIds =>
        /\ WLt(sys["ListU8"].sizing.max, U32_MAX)
        /\ RawLenWidth(sys["ListU8"].sizing.max) = ListLenWidth(sys["ListU8"].sizing.max)
C8_ExactWhereTiersAgree ==
    (Loaded /\ C8_TiersAgree /\ result.res = "Ok") =>
        LET e == C8_Encode(spec, result.val.val)
        IN  e.ok /\ e.bytes = SubSeq(data, 1, reader.pos)

-----------------------------------------------------------------------------
\* the struct types of the type system
C9_StructIds == {"Struct", "StructChar", "Nominal"}

(* C9: load of a Struct yields a struct value with one entry per declared
   field, in the declared order, each name bound to the value decoded at
   that field's place in the stream. *)
C9_FieldOrder ==
    /\ (Loaded /\ spec \in C9_StructIds /\ result.res = "Ok") =>
           /\ result.val.val.k = "Struct"
           /\ [i \in 1..Len(result.val.val.v) |-> result.val.val.v[i][1]]
                 = [i \in 1..Len(sys[spec].reqs) |-> sys[spec].reqs[i].name]
    /\ (Loaded /\ spec = "Struct" /\ Len(data) >= 3) =>
           /\ result.res = "Ok"
           /\ result.val.val.v[1] = <<"b", Num(<<data[1]>>, FALSE)>>
           /\ result.val.val.v[2] = <<"a", Num(<<data[2], data[3]>>, FALSE)>>

C9_Witness ==
    /\ Loaded /\ spec = "Struct" /\ data = <<1, 2, 0>>
    /\ result.res = "Ok"
    /\ result.val.val.v[1][1] = "b" /\ result.val.val.v[2][1] = "a"

-----------------------------------------------------------------------------
\* the tier of the declared maximum and the string the bytes hold
C10_Max == sys[spec].sizing.max
C10_Tier ==
    IF ~WLt(U8_MAX, C10_Max) THEN 1
    ELSE IF ~WLt(U16_MAX, C10_Max) THEN 2
    ELSE IF ~WLt(U24_MAX, C10_Max) THEN 3
    ELSE 4
C10_Stated == FromLe(SubSeq(data, 1, C10_Tier))
C10_Whole ==
    /\ Len(data) >= C10_Tier
    /\ Fits24(C10_Stated)
    /\ Len(data) >= C10_Tier + Low24(C10_Stated)
C10_Content == SubSeq(data, C10_Tier + 1, C10_Tier + Low24(C10_Stated))

C10_TextOf(ids) ==
    (Loaded /\ spec \in ids /\ WLe(C10_Max, U32_MAX)) =>
        /\ result.res # "Panic"
        /\ result.res = "Ok" =>
              /\ result.val.val.k = "String"
              /\ C10_Whole
              /\ reader.pos = C10_Tier + Low24(C10_Stated)
        /\ (C10_Whole /\ \A i \in 1..Len(C10_Content) : C10_Content[i] < 128) =>
              result = Ok(TypedVal(V("String", 0, C10_Content), spec))

(* C10, as amended: for a List whose element type is the Unicode character
   (the ASCII character) and whose declared maximum is at most 255 / 65535 /
   16777215 / 4294967295, load decodes a bounded string behind a length
   prefix of 1 / 2 / 3 / 4 bytes and returns a text value; both paths give
   the same text for the same ASCII content. *)
C10_ListTextByTier == C10_TextOf({"String", "AsciiStr"})

C10_Witness ==
    /\ Loaded /\ spec = "AsciiStr" /\ sys[spec].sizing.max = U16_MAX
    /\ data = <<1, 0, 2>>
    /\ result = Ok(TypedVal(V("String", 0, <<2>>), "AsciiStr"))

(* C10 as stated: the same for a List, a Set or a Map of characters. *)
C10_CollectionTextByTier ==
    C10_TextOf({"String", "AsciiStr", "SetUnicode", "SetAscii", "MapUnicode"})

\* the completions that close a context
C11_Closers ==
    {<<t, "complete">> : t \in {"DefineTuple", "WriteTuple", "DefineStruct",
                                "WriteStruct", "WriteEnum", "WriteUnion"}}

\* the completions that turn a definer into its writer
C11_Turns == {<<"DefineUnion", "complete">>, <<"DefineEnum", "complete">>}

C11_WriterOf(kind) == IF kind = "UnionDefiner" THEN "UnionWriter" ELSE "EnumWriter"

\* the contexts a builder value is nested in, innermost first
RECURSIVE C11_Chain(_)
C11_Chain(b) ==
    IF b.kind = "Writer" THEN <<>> ELSE <<b.parent>> \o C11_Chain(b.parent)

(* C11: builder contexts are well nested.  The caller never holds more than
   one builder value, and the contexts it is nested in are the ones opened
   and not yet closed, last opened first.  complete on a tuple or struct
   definer or writer, and on an enum or union writer, returns exactly the
   context that opened it, which is the last one opened; complete on a
   union or enum definer yields the writer of the same Parent and closes
   nothing; and the value a complete was called on is no longer held, so no
   field can be written to it afterwards. *)
C11_WellNested ==
    /\ [](/\ Cardinality(live) <= 1
          /\ \A b \in live : C11_Chain(b) = opened)
    /\ [][/\ op' \in C11_Closers =>
                /\ live' = {Head(opened)}
                /\ opened' = Tail(opened)
                /\ live \cap live' = {}
          /\ op' \in C11_Turns =>
                /\ \E b \in live :
                      /\ Cardinality(live') = 1
                      /\ \A w \in live' :
                            /\ w.kind = C11_WriterOf(b.kind)
                            /\ w.parent = b.parent
                /\ opened' = opened
                /\ live \cap live' = {}]_vars

\* a tuple written as a union variant has been completed: the union writer
\* that opened it is back in hand, with the unit variant it had taken
\* before, and the root writer is still waiting under it
C11_Witness ==
    /\ op = <<"WriteTuple", "complete">>
    /\ opened = <<RootWriter>>
    /\ \E b \in live : b.kind = "UnionWriter" /\ b.n = 1

\* the encodings of the items lo..hi of a collection, one after another
RECURSIVE C12_Encodings(_, _, _)
C12_Encodings(col, lo, hi) ==
    IF lo > hi THEN <<>>
    ELSE IF lo = hi THEN col[lo]
    ELSE LET mid == (lo + hi) \div 2
         IN  C12_Encodings(col, lo, mid) \o C12_Encodings(col, mid + 1, hi)

\* the collection is confined below the largest MAX_LEN that has a tier
C12_Confined == WLe(len, MAX_LEN) /\ WLt(MAX_LEN, U32_MAX)

(* C12: for every confined collection (len <= MAX_LEN < 4294967295),
   write_raw_collection emits the length prefix of the tier of MAX_LEN,
   whose integer value is col.len() exactly, followed by each item's own
   encoding in iteration order and nothing else; and write_raw_len itself,
   handed any length up to such a MAX_LEN, writes that length untruncated.
   Neither panics; the only failure is a write the writer refuses. *)
C12_PrefixThenItems ==
    /\ (pc = "done" /\ op = "write_raw_collection" /\ C12_Confined) =>
          /\ result.res # "Panic"
          /\ ~limited => result.res = "Ok"
          /\ result.res = "Ok" =>
                LET w == C1_ExpectedWidth
                    items == C12_Encodings(value, 1, Len(value))
                IN  /\ Len(writer) = w + Len(items)
                    /\ FromLe(SubSeq(writer, 1, w)) = Wide(Len(value))
                    /\ SubSeq(writer, w + 1, Len(writer)) = items
    /\ (pc = "done" /\ op = "write_raw_len" /\ C12_Confined) =>
          /\ result.res = "Ok"
          /\ Len(writer) = C1_ExpectedWidth
          /\ FromLe(writer) = len

\* 256 items under MAX_LEN = 65534: the prefix is 00 01, which one byte
\* could not have held, and the 256 items follow
C12_Witness ==
    /\ pc = "done" /\ op = "write_raw_collection"
    /\ MAX_LEN = WPred(U16_MAX)
    /\ Len(value) = 256
    /\ result.res = "Ok"
    /\ SubSeq(writer, 1, 2) = <<0, 1>>
    /\ Len(writer) = 258

====
